---- MODULE Spec2Model ----
(***************************************************************************)
(* A model of the keystroke state machine of keybr-textinput (TextInput):  *)
(* committed steps, garbage buffer and outstanding-typo flag, driven by    *)
(* step() and reset() calls, together with the rendering projection.       *)
(***************************************************************************)
EXTENDS Integers, Sequences, FiniteSets, TLC

(* ---------------- bounds of the exploration ---------------- *)

\* Total number of step() calls explored in one behaviour.
MaxCalls == 5

(* ---------------- code points ---------------- *)

\* The backspace sentinel and the canonical space of step().
BS == 8
SP == 32
\* A whitespace variant and a typographic character with its plain form.
NBSP == 160
RSQUO == 8217
APOS == 39
\* Letters used by the target texts and as keys.
Chr == [a |-> 97, b |-> 98, c |-> 99, d |-> 100, f |-> 102, o |-> 111,
        r |-> 114, x |-> 120]

recoverBufferLength == 3
garbageBufferLength == 10

(* ---------------- the character classifier ---------------- *)

isWhitespace(codePoint) == codePoint \in {SP, NBSP}

normalizeWhitespace(codePoint) == IF codePoint = NBSP THEN SP ELSE codePoint

normalize(codePoint) ==
  CASE codePoint = NBSP -> SP
    [] codePoint = RSQUO -> APOS
    [] OTHER -> codePoint

(* ---------------- target texts and keys ---------------- *)

TextAbcd == <<Chr.a, Chr.b, Chr.c, Chr.d>>
TextFooBar == <<Chr.f, Chr.o, Chr.o, SP, Chr.b, Chr.a, Chr.r>>
TextLeadingSpace == <<SP, Chr.a, Chr.b>>
TextTypographic == <<Chr.a, NBSP, RSQUO, Chr.b>>
TextAbbb == <<Chr.a, Chr.b, Chr.b, Chr.b>>

Texts == {TextAbcd, TextFooBar, TextLeadingSpace, TextTypographic, TextAbbb}

Range(s) == {s[i] : i \in 1..Len(s)}

\* The keys offered to step() for a target: its characters, their plain
\* forms, a foreign letter, the space, a whitespace variant and backspace.
Keys(text) ==
  Range(text) \cup {normalize(c) : c \in Range(text)} \cup {Chr.x, SP, NBSP, BS}

VARIABLES
  codePoints,       \* readonly codePoints: the target
  stopOnError, forgiveErrors, spaceSkipsWords,
  steps,            \* #steps
  garbage,          \* #garbage
  typo,             \* #typo
  received,         \* steps delivered to #onStep since construction or the last reset
  last,             \* the last call: its operation, input and result
  clock,            \* number of step() calls so far, the caller's time source
  resetFrom,        \* what the machine looked like when reset() was last called
  fresh,            \* a machine constructed at the last reset and fed the same inputs
  freshFb,          \* what the last step() of that machine returned
  fed,              \* inputs since the last reset while they spell the target, else -1
  hist,             \* a call of Histogram.from: its arguments and its result
  store             \* a ResultStorageOfNamedUser with its two stores and its load() call

vars == <<codePoints, stopOnError, forgiveErrors, spaceSkipsWords, steps,
          garbage, typo, received, last, clock, resetFrom, fresh, freshFb,
          fed, hist, store>>

\* The variables of the other components, which a TextInput does not touch.
others == <<hist, store>>

settings == <<codePoints, stopOnError, forgiveErrors, spaceSkipsWords>>

(* ---------------- the machine ---------------- *)

\* The mutable part of a TextInput with the log of its step listener.
Machine == [steps |-> steps, garbage |-> garbage, typo |-> typo,
            received |-> received]

Fresh == [steps |-> <<>>, garbage |-> <<>>, typo |-> FALSE, received |-> <<>>]

Step(codePoint, timeStamp, isTypo) ==
  [codePoint |-> codePoint, timeStamp |-> timeStamp, typo |-> isTypo]

completed(m) == Len(m.steps) = Len(codePoints)

\* The target character at the cursor (codePoints[#steps.length]).
expected(m) == codePoints[Len(m.steps) + 1]

addStep(m, s) ==
  [m EXCEPT !.steps = Append(@, s), !.received = Append(@, s)]

\* Variant: the buffered entries are pushed to #steps directly, without
\* notifying the listener.
RECURSIVE addStepsQuietly(_, _)
addStepsQuietly(m, entries) ==
  IF entries = <<>> THEN m
  ELSE addStepsQuietly([m EXCEPT !.steps =
                          Append(@, Step(Head(entries).codePoint,
                                         Head(entries).timeStamp, FALSE))],
                       Tail(entries))

RECURSIVE addSteps(_, _)
addSteps(m, entries) ==
  IF entries = <<>> THEN m
  ELSE addSteps(addStep(m, Step(Head(entries).codePoint,
                                Head(entries).timeStamp, FALSE)),
                Tail(entries))

RECURSIVE skipWord(_, _)
skipWord(m, timeStamp) ==
  IF Len(m.steps) < Len(codePoints) /\ ~isWhitespace(expected(m))
  THEN skipWord(addStep(m, Step(expected(m), timeStamp, TRUE)), timeStamp)
  ELSE m

\* Variant: the whitespace after the skipped word is not committed.
handleSpaceStopsAtWordEnd(m, timeStamp) ==
  LET m1 == addStep(m, Step(expected(m), timeStamp, TRUE))
      m2 == skipWord(m1, timeStamp)
  IN [m2 EXCEPT !.garbage = <<>>, !.typo = FALSE]

handleSpace(m, timeStamp) ==
  LET m1 == addStep(m, Step(expected(m), timeStamp, TRUE))
      m2 == skipWord(m1, timeStamp)
      m3 == IF Len(m2.steps) < Len(codePoints) /\ isWhitespace(expected(m2))
            THEN addStep(m2, Step(expected(m2), timeStamp, FALSE))
            ELSE m2
  IN [m3 EXCEPT !.garbage = <<>>, !.typo = FALSE]

\* Variant: the typo step is stamped with the time of the last buffered
\* entry instead of the first.
handleReplacedCharacterLastStamp(m) ==
  IF \/ Len(m.garbage) < recoverBufferLength + 1
     \/ Len(m.steps) + recoverBufferLength + 1 > Len(codePoints)
  THEN [ok |-> FALSE, m |-> m]
  ELSE IF \E i \in 0..(recoverBufferLength - 1) :
            codePoints[Len(m.steps) + i + 2] # m.garbage[i + 2].codePoint
  THEN [ok |-> FALSE, m |-> m]
  ELSE LET m1 == addStep(m, Step(expected(m),
                                 m.garbage[Len(m.garbage)].timeStamp, TRUE))
           m2 == addSteps(m1, Tail(m.garbage))
       IN [ok |-> TRUE, m |-> [m2 EXCEPT !.garbage = <<>>, !.typo = FALSE]]

\* Variant: the loop over the buffer starts at index 0, as in the
\* skipped-character handler.
handleReplacedCharacterFromZero(m) ==
  IF \/ Len(m.garbage) < recoverBufferLength + 1
     \/ Len(m.steps) + recoverBufferLength + 1 > Len(codePoints)
  THEN [ok |-> FALSE, m |-> m]
  ELSE IF \E i \in 0..(recoverBufferLength - 1) :
            codePoints[Len(m.steps) + i + 2] # m.garbage[i + 2].codePoint
  THEN [ok |-> FALSE, m |-> m]
  ELSE LET m1 == addStep(m, Step(expected(m), m.garbage[1].timeStamp, TRUE))
           m2 == addSteps(m1, m.garbage)
       IN [ok |-> TRUE, m |-> [m2 EXCEPT !.garbage = <<>>, !.typo = FALSE]]

handleReplacedCharacter(m) ==
  IF \/ Len(m.garbage) < recoverBufferLength + 1
     \/ Len(m.steps) + recoverBufferLength + 1 > Len(codePoints)
  THEN [ok |-> FALSE, m |-> m]
  ELSE IF \E i \in 0..(recoverBufferLength - 1) :
            codePoints[Len(m.steps) + i + 2] # m.garbage[i + 2].codePoint
  THEN [ok |-> FALSE, m |-> m]
  ELSE LET m1 == addStep(m, Step(expected(m), m.garbage[1].timeStamp, TRUE))
           m2 == addSteps(m1, Tail(m.garbage))
       IN [ok |-> TRUE, m |-> [m2 EXCEPT !.garbage = <<>>, !.typo = FALSE]]

\* Variant: only two of the three lookahead positions are verified.
handleSkippedCharacterShortCheck(m) ==
  IF \/ Len(m.garbage) < recoverBufferLength
     \/ Len(m.steps) + recoverBufferLength + 1 > Len(codePoints)
  THEN [ok |-> FALSE, m |-> m]
  ELSE IF \E i \in 0..(recoverBufferLength - 2) :
            codePoints[Len(m.steps) + i + 2] # m.garbage[i + 1].codePoint
  THEN [ok |-> FALSE, m |-> m]
  ELSE LET m1 == addStep(m, Step(expected(m), m.garbage[1].timeStamp, TRUE))
           m2 == addSteps(m1, m.garbage)
       IN [ok |-> TRUE, m |-> [m2 EXCEPT !.garbage = <<>>, !.typo = FALSE]]

\* Variant: the step of the skipped character is stamped with the time of
\* the last buffered entry instead of the first.
handleSkippedCharacterLastStamp(m) ==
  IF \/ Len(m.garbage) < recoverBufferLength
     \/ Len(m.steps) + recoverBufferLength + 1 > Len(codePoints)
  THEN [ok |-> FALSE, m |-> m]
  ELSE IF \E i \in 0..(recoverBufferLength - 1) :
            codePoints[Len(m.steps) + i + 2] # m.garbage[i + 1].codePoint
  THEN [ok |-> FALSE, m |-> m]
  ELSE LET m1 == addStep(m, Step(expected(m),
                                 m.garbage[Len(m.garbage)].timeStamp, TRUE))
           m2 == addSteps(m1, m.garbage)
       IN [ok |-> TRUE, m |-> [m2 EXCEPT !.garbage = <<>>, !.typo = FALSE]]

\* Variant: the step of the skipped character is not marked as a typo.
handleSkippedCharacterNoTypo(m) ==
  IF \/ Len(m.garbage) < recoverBufferLength
     \/ Len(m.steps) + recoverBufferLength + 1 > Len(codePoints)
  THEN [ok |-> FALSE, m |-> m]
  ELSE IF \E i \in 0..(recoverBufferLength - 1) :
            codePoints[Len(m.steps) + i + 2] # m.garbage[i + 1].codePoint
  THEN [ok |-> FALSE, m |-> m]
  ELSE LET m1 == addStep(m, Step(expected(m), m.garbage[1].timeStamp, FALSE))
           m2 == addSteps(m1, m.garbage)
       IN [ok |-> TRUE, m |-> [m2 EXCEPT !.garbage = <<>>, !.typo = FALSE]]

handleSkippedCharacter(m) ==
  IF \/ Len(m.garbage) < recoverBufferLength
     \/ Len(m.steps) + recoverBufferLength + 1 > Len(codePoints)
  THEN [ok |-> FALSE, m |-> m]
  ELSE IF \E i \in 0..(recoverBufferLength - 1) :
            codePoints[Len(m.steps) + i + 2] # m.garbage[i + 1].codePoint
  THEN [ok |-> FALSE, m |-> m]
  ELSE LET m1 == addStep(m, Step(expected(m), m.garbage[1].timeStamp, TRUE))
           m2 == addSteps(m1, m.garbage)
       IN [ok |-> TRUE, m |-> [m2 EXCEPT !.garbage = <<>>, !.typo = FALSE]]

\* Variant: no special case for whitespace at the beginning of the text.
isLeadingWhitespaceNever(m, codePoint) == FALSE

\* step(): whitespace at the beginning of the text.
isLeadingWhitespace(m, codePoint) ==
  Len(m.steps) = 0 /\ Len(m.garbage) = 0 /\ ~m.typo /\ codePoint = SP

\* Variant: removing the last buffered entry also clears the typo flag.
stepDeleteClearsTypo(m) ==
  IF Len(m.garbage) > 0
  THEN [m |-> [m EXCEPT !.garbage = SubSeq(@, 1, Len(@) - 1),
                        !.typo = IF Len(m.garbage) = 1 THEN FALSE ELSE @],
        fb |-> "Succeeded"]
  ELSE [m |-> m, fb |-> "Failed"]

\* Variant: with nothing buffered the delete key removes the last step.
stepDeleteEditsHistory(m) ==
  IF Len(m.garbage) > 0
  THEN [m |-> [m EXCEPT !.garbage = SubSeq(@, 1, Len(@) - 1)],
        fb |-> "Succeeded"]
  ELSE IF Len(m.steps) > 0
  THEN [m |-> [m EXCEPT !.steps = SubSeq(@, 1, Len(@) - 1)],
        fb |-> "Succeeded"]
  ELSE [m |-> m, fb |-> "Failed"]

\* step(): the delete key.
stepDelete(m) ==
  IF Len(m.garbage) > 0
  THEN [m |-> [m EXCEPT !.garbage = SubSeq(@, 1, Len(@) - 1)],
        fb |-> "Succeeded"]
  ELSE [m |-> m, fb |-> "Failed"]

\* step(): the space key typed where the target has no whitespace.
isSpaceKey(m, codePoint) == codePoint = SP /\ ~isWhitespace(expected(m))

\* Variant: buffered garbage is not looked at.
atBeginningOfWordIgnoringGarbage(m) ==
  Len(m.steps) = 0 \/ isWhitespace(codePoints[Len(m.steps)])

atBeginningOfWord(m) ==
  /\ Len(m.garbage) = 0
  /\ (Len(m.steps) = 0 \/ isWhitespace(codePoints[Len(m.steps)]))

\* Variant: the target character is compared without normalize().
isCorrectRaw(m, codePoint) ==
  /\ expected(m) = codePoint
  /\ (forgiveErrors \/ Len(m.garbage) = 0)

\* step(): correct input.
isCorrect(m, codePoint) ==
  /\ normalize(expected(m)) = codePoint
  /\ (forgiveErrors \/ Len(m.garbage) = 0)

stepCorrect(m, codePoint, timeStamp) ==
  LET m1 == addStep(m, Step(codePoint, timeStamp, m.typo))
  IN [m |-> [m1 EXCEPT !.garbage = <<>>, !.typo = FALSE],
      fb |-> IF m.typo THEN "Recovered" ELSE "Succeeded"]

\* Variant: the recovery heuristics run whatever forgiveErrors says.
stepIncorrectAlwaysRecovers(m, codePoint, timeStamp) ==
  LET m1 == [m EXCEPT !.typo = TRUE]
      m2 == IF (~stopOnError \/ forgiveErrors)
               /\ Len(m1.garbage) < garbageBufferLength
            THEN [m1 EXCEPT !.garbage =
                     Append(@, Step(codePoint, timeStamp, FALSE))]
            ELSE m1
      replaced == handleReplacedCharacter(m2)
      skipped == handleSkippedCharacter(m2)
  IN IF replaced.ok THEN [m |-> replaced.m, fb |-> "Recovered"]
     ELSE IF skipped.ok THEN [m |-> skipped.m, fb |-> "Recovered"]
     ELSE [m |-> m2, fb |-> "Failed"]

\* Variant: recovery is tried before the key is buffered.
stepIncorrectRecoversLate(m, codePoint, timeStamp) ==
  LET m1 == [m EXCEPT !.typo = TRUE]
      m2 == IF (~stopOnError \/ forgiveErrors)
               /\ Len(m1.garbage) < garbageBufferLength
            THEN [m1 EXCEPT !.garbage =
                     Append(@, Step(codePoint, timeStamp, FALSE))]
            ELSE m1
      replaced == handleReplacedCharacter(m1)
      skipped == handleSkippedCharacter(m1)
  IN IF forgiveErrors /\ replaced.ok THEN [m |-> replaced.m, fb |-> "Recovered"]
     ELSE IF forgiveErrors /\ skipped.ok
     THEN [m |-> skipped.m, fb |-> "Recovered"]
     ELSE [m |-> m2, fb |-> "Failed"]

\* Variant: the buffer has no capacity check.
stepIncorrectUnbounded(m, codePoint, timeStamp) ==
  LET m1 == [m EXCEPT !.typo = TRUE]
      m2 == IF ~stopOnError \/ forgiveErrors
            THEN [m1 EXCEPT !.garbage =
                     Append(@, Step(codePoint, timeStamp, FALSE))]
            ELSE m1
      replaced == handleReplacedCharacter(m2)
      skipped == handleSkippedCharacter(m2)
  IN IF forgiveErrors /\ replaced.ok THEN [m |-> replaced.m, fb |-> "Recovered"]
     ELSE IF forgiveErrors /\ skipped.ok
     THEN [m |-> skipped.m, fb |-> "Recovered"]
     ELSE [m |-> m2, fb |-> "Failed"]

\* Variant: a successful recovery is not reported, step() returns Failed.
stepIncorrectRecoversSilently(m, codePoint, timeStamp) ==
  LET m1 == [m EXCEPT !.typo = TRUE]
      m2 == IF (~stopOnError \/ forgiveErrors)
               /\ Len(m1.garbage) < garbageBufferLength
            THEN [m1 EXCEPT !.garbage =
                     Append(@, Step(codePoint, timeStamp, FALSE))]
            ELSE m1
      replaced == handleReplacedCharacter(m2)
      skipped == handleSkippedCharacter(m2)
  IN IF forgiveErrors /\ replaced.ok THEN [m |-> replaced.m, fb |-> "Failed"]
     ELSE IF forgiveErrors /\ skipped.ok
     THEN [m |-> skipped.m, fb |-> "Failed"]
     ELSE [m |-> m2, fb |-> "Failed"]

\* step(): incorrect input.
stepIncorrect(m, codePoint, timeStamp) ==
  LET m1 == [m EXCEPT !.typo = TRUE]
      m2 == IF (~stopOnError \/ forgiveErrors)
               /\ Len(m1.garbage) < garbageBufferLength
            THEN [m1 EXCEPT !.garbage =
                     Append(@, Step(codePoint, timeStamp, FALSE))]
            ELSE m1
      replaced == handleReplacedCharacter(m2)
      skipped == handleSkippedCharacter(m2)
  IN IF forgiveErrors /\ replaced.ok THEN [m |-> replaced.m, fb |-> "Recovered"]
     ELSE IF forgiveErrors /\ skipped.ok
     THEN [m |-> skipped.m, fb |-> "Recovered"]
     ELSE [m |-> m2, fb |-> "Failed"]

\* step(codePoint, timeStamp): the new machine and the Feedback returned;
\* "Error" stands for the Error thrown after completion.
step(m, rawCodePoint, timeStamp) ==
  LET codePoint == normalizeWhitespace(rawCodePoint)
  IN IF completed(m) THEN [m |-> m, fb |-> "Error"]
     ELSE IF isLeadingWhitespace(m, codePoint)
     THEN [m |-> m, fb |-> "Succeeded"]
     ELSE IF codePoint = BS THEN stepDelete(m)
     ELSE IF isSpaceKey(m, codePoint) /\ atBeginningOfWord(m)
     THEN [m |-> m, fb |-> "Succeeded"]
     ELSE IF isSpaceKey(m, codePoint) /\ spaceSkipsWords
     THEN [m |-> handleSpace(m, timeStamp), fb |-> "Recovered"]
     ELSE IF isCorrect(m, codePoint) THEN stepCorrect(m, codePoint, timeStamp)
     ELSE stepIncorrect(m, codePoint, timeStamp)

\* Variant: the outstanding-typo flag survives reset().
resetKeepsTypo(m) == [m EXCEPT !.steps = <<>>, !.garbage = <<>>]

reset(m) == [m EXCEPT !.steps = <<>>, !.garbage = <<>>, !.typo = FALSE]

getSteps(m) == m.steps

toChar(codePoint, attrs) == [codePoint |-> codePoint, attrs |-> attrs]

\* Variant: buffered garbage is shown whatever stopOnError says.
RECURSIVE getCharsFromAlwaysGarbage(_, _)
getCharsFromAlwaysGarbage(m, i) ==
  IF i > Len(codePoints) THEN <<>>
  ELSE LET codePoint == codePoints[i]
           here ==
             IF i - 1 < Len(m.steps)
             THEN <<toChar(codePoint,
                           IF m.steps[i].typo THEN "miss" ELSE "hit")>>
             ELSE IF i - 1 = Len(m.steps)
             THEN [k \in 1..Len(m.garbage) |->
                     toChar(m.garbage[k].codePoint, "garbage")]
                  \o <<toChar(codePoint, "cursor")>>
             ELSE <<toChar(codePoint, "normal")>>
       IN here \o getCharsFromAlwaysGarbage(m, i + 1)

RECURSIVE getCharsFrom(_, _)
getCharsFrom(m, i) ==
  IF i > Len(codePoints) THEN <<>>
  ELSE LET codePoint == codePoints[i]
           here ==
             IF i - 1 < Len(m.steps)
             THEN <<toChar(codePoint,
                           IF m.steps[i].typo THEN "miss" ELSE "hit")>>
             ELSE IF i - 1 = Len(m.steps)
             THEN (IF ~stopOnError
                   THEN [k \in 1..Len(m.garbage) |->
                           toChar(m.garbage[k].codePoint, "garbage")]
                   ELSE <<>>) \o <<toChar(codePoint, "cursor")>>
             ELSE <<toChar(codePoint, "normal")>>
       IN here \o getCharsFrom(m, i + 1)

getChars(m) == getCharsFrom(m, 1)

(* ---------------- the state machine ---------------- *)

\* The constructor ends with a call of reset().
Constructed == [op |-> "reset", codePoint |-> 0, timeStamp |-> 0, fb |-> "none"]

\* No Histogram.from call and no storage are part of a typing session.
NoHistogram == [pc |-> "none", steps |-> <<>>, startedAt |-> <<>>,
                samples |-> <<>>]
NoStorage == [pc |-> "none"]

Init ==
  /\ hist = NoHistogram
  /\ store = NoStorage
  /\ codePoints \in Texts
  /\ stopOnError \in BOOLEAN
  /\ forgiveErrors \in BOOLEAN
  /\ spaceSkipsWords \in BOOLEAN
  /\ steps = <<>>
  /\ garbage = <<>>
  /\ typo = FALSE
  /\ received = <<>>
  /\ last = Constructed
  /\ clock = 0
  /\ resetFrom = "clean"
  /\ fresh = Fresh
  /\ freshFb = "none"
  /\ fed = 0

\* A call of step() with one of the keys at the caller's next time, while
\* fewer than maxCalls calls have been made.
StepWith(keys, maxCalls) ==
  /\ clock < maxCalls
  /\ \E key \in keys :
       LET r == step(Machine, key, clock + 1)
           f == step(fresh, key, clock + 1)
       IN /\ steps' = r.m.steps
          /\ garbage' = r.m.garbage
          /\ typo' = r.m.typo
          /\ received' = r.m.received
          /\ last' = [op |-> "step", codePoint |-> key,
                      timeStamp |-> clock + 1, fb |-> r.fb]
          /\ fresh' = f.m
          /\ freshFb' = f.fb
          /\ fed' = IF fed >= 0 /\ fed < Len(codePoints)
                       /\ key = codePoints[fed + 1]
                    THEN fed + 1 ELSE -1
  /\ clock' = clock + 1
  /\ UNCHANGED <<settings, resetFrom, others>>

\* A call of step() with a key of the keyboard.
StepCall == StepWith(Keys(codePoints), MaxCalls)

\* A call of reset(); the listener's log starts a new period and the
\* reference machine is constructed anew.
ResetCall ==
  /\ LET m == reset(Machine)
     IN /\ steps' = m.steps
        /\ garbage' = m.garbage
        /\ typo' = m.typo
  /\ received' = <<>>
  /\ last' = Constructed
  /\ resetFrom' = IF completed(Machine) THEN "completed"
                  ELSE IF garbage # <<>> THEN "garbage"
                  ELSE IF typo THEN "typo"
                  ELSE "clean"
  /\ fresh' = Fresh
  /\ freshFb' = "none"
  /\ fed' = 0
  /\ UNCHANGED <<settings, clock, others>>

Next == StepCall \/ ResetCall

Spec == Init /\ [][Next]_vars

(* ---------------- a long run of mistyped keys ---------------- *)

\* Number of step() calls explored when the garbage buffer is filled.
MaxOverflowCalls == 12

\* Only a foreign letter and backspace are typed, on "abcd".
OverflowKeys == {Chr.x, BS}

InitOverflow == Init /\ codePoints = TextAbcd /\ ~spaceSkipsWords

OverflowCall == StepWith(OverflowKeys, MaxOverflowCalls)

NextOverflow == OverflowCall

SpecOverflow == InitOverflow /\ [][NextOverflow]_vars

(* ---------------- Histogram.from ---------------- *)

\* Longest step sequence handed to Histogram.from.
MaxHistSteps == 3

HistSteps == [codePoint : {Chr.a, Chr.b}, timeStamp : {0, 5, 10},
              typo : BOOLEAN]

HistInputs == UNION {[1..n -> HistSteps] : n \in 0..MaxHistSteps}

\* Math.round(a / b) for b > 0: the nearest integer, halves upwards.
mathRound(a, b) == (2 * a + b) \div (2 * b)

NoSample == [hitCount |-> 0, missCount |-> 0, timeToType |-> 0]

\* The loop of Histogram.from over the steps; samples is the Map, lastStep
\* the step before (<<>> for null).
RECURSIVE fromLoop(_, _, _)
fromLoop(samples, lastStep, rest) ==
  IF rest = <<>> THEN samples
  ELSE LET s == Head(rest)
           sample == IF s.codePoint \in DOMAIN samples
                     THEN samples[s.codePoint] ELSE NoSample
           updated ==
             [hitCount |-> sample.hitCount + 1,
              missCount |-> sample.missCount + (IF s.typo THEN 1 ELSE 0),
              timeToType |-> sample.timeToType +
                (IF ~s.typo /\ lastStep # <<>>
                 THEN s.timeStamp - lastStep[1].timeStamp ELSE 0)]
       IN fromLoop([k \in DOMAIN samples \cup {s.codePoint} |->
                      IF k = s.codePoint THEN updated ELSE samples[k]],
                   <<s>>, Tail(rest))

\* new Histogram(samples): the samples in the order of their code points.
RECURSIVE Histogram(_)
Histogram(samples) ==
  IF samples = {} THEN <<>>
  ELSE LET first == CHOOSE x \in samples :
                      \A y \in samples : x.codePoint <= y.codePoint
       IN <<first>> \o Histogram(samples \ {first})

\* Histogram.from(steps, {startedAt}); startedAt is <<>> for null.
from(stepSeq, startedAt) ==
  LET lastStep == IF startedAt # <<>>
                  THEN <<Step(0, startedAt[1], FALSE)>> ELSE <<>>
      samples == fromLoop(<<>>, lastStep, stepSeq)
  IN Histogram({[codePoint |-> k,
                 hitCount |-> samples[k].hitCount,
                 missCount |-> samples[k].missCount,
                 timeToType |-> mathRound(samples[k].timeToType,
                                          samples[k].hitCount)] :
                k \in DOMAIN samples})

\* Histogram.get(codePoint), for a code point the histogram has.
get(histogram, codePoint) ==
  histogram[CHOOSE i \in 1..Len(histogram) :
              histogram[i].codePoint = codePoint]

\* A machine that is not used while a histogram is built or results are
\* loaded.
IdleTextInput ==
  /\ codePoints = TextAbcd
  /\ stopOnError = FALSE /\ forgiveErrors = FALSE /\ spaceSkipsWords = FALSE
  /\ steps = <<>> /\ garbage = <<>> /\ typo = FALSE /\ received = <<>>
  /\ last = Constructed /\ clock = 0 /\ resetFrom = "clean"
  /\ fresh = Fresh /\ freshFb = "none" /\ fed = 0

textInput == <<codePoints, stopOnError, forgiveErrors, spaceSkipsWords,
               steps, garbage, typo, received, last, clock, resetFrom,
               fresh, freshFb, fed>>

InitHistogram ==
  /\ IdleTextInput
  /\ store = NoStorage
  /\ hist \in [pc : {"call"}, steps : HistInputs, startedAt : {<<>>, <<0>>},
                samples : {<<>>}]

HistogramFrom ==
  /\ hist.pc = "call"
  /\ hist' = [hist EXCEPT !.pc = "done",
                          !.samples = from(hist.steps, hist.startedAt)]
  /\ UNCHANGED <<textInput, store>>

NextHistogram == HistogramFrom

SpecHistogram == InitHistogram /\ [][NextHistogram]_vars

(* ---------------- ResultStorageOfNamedUser ---------------- *)

\* Most results a store holds before load() is called.
MaxStored == 2

Results == {"r1", "r2"}

Stored == UNION {[1..n -> Results] : n \in 0..MaxStored}

NotReturned == [status |-> "none", results |-> <<>>]

\* The two stores: what a successful call returns or leaves behind.
remoteReceive(remote) == remote
remoteSend(remote, results) == remote \o results
localLoad(local) == local
localClear(local) == <<>>

\* Variant: the local store is cleared before its results are sent.
loadAwaitedClearsFirst(st) ==
  CASE st.pc = "receive" ->
         IF Len(remoteReceive(st.remote)) > 0
         THEN [st EXCEPT !.pc = "done",
                         !.returned = [status |-> "ok",
                                       results |-> remoteReceive(st.remote)]]
         ELSE [st EXCEPT !.pc = "load",
                         !.results = remoteReceive(st.remote)]
    [] st.pc = "load" ->
         IF Len(localLoad(st.local)) > 0
         THEN [st EXCEPT !.pc = "clear", !.results = localLoad(st.local)]
         ELSE [st EXCEPT !.pc = "done",
                         !.returned = [status |-> "ok", results |-> <<>>]]
    [] st.pc = "clear" -> [st EXCEPT !.pc = "send", !.local = localClear(@)]
    [] st.pc = "send" ->
         [st EXCEPT !.pc = "done", !.remote = remoteSend(@, st.results),
                    !.returned = [status |-> "ok", results |-> st.results]]

\* ResultStorageOfNamedUser.load(): the awaited call of the current
\* position (remote.receive, local.load, remote.send, local.clear) has
\* succeeded; load() runs on to its next await or to its return.
loadAwaited(st) ==
  CASE st.pc = "receive" ->
         IF Len(remoteReceive(st.remote)) > 0
         THEN [st EXCEPT !.pc = "done",
                         !.returned = [status |-> "ok",
                                       results |-> remoteReceive(st.remote)]]
         ELSE [st EXCEPT !.pc = "load",
                         !.results = remoteReceive(st.remote)]
    [] st.pc = "load" ->
         IF Len(localLoad(st.local)) > 0
         THEN [st EXCEPT !.pc = "send", !.results = localLoad(st.local)]
         ELSE [st EXCEPT !.pc = "done",
                         !.returned = [status |-> "ok", results |-> <<>>]]
    [] st.pc = "send" ->
         [st EXCEPT !.pc = "clear", !.remote = remoteSend(@, st.results)]
    [] st.pc = "clear" ->
         [st EXCEPT !.pc = "done", !.local = localClear(@),
                    !.returned = [status |-> "ok", results |-> st.results]]

\* translateErrors: whatever load() throws becomes a DatabaseError.
loadThrown(st) ==
  [st EXCEPT !.pc = "done",
             !.returned = [status |-> "DatabaseError", results |-> <<>>]]

Awaiting == {"receive", "load", "send", "clear"}

InitStorage ==
  /\ IdleTextInput
  /\ hist = NoHistogram
  /\ store \in [pc : {"idle"}, local : Stored, remote : Stored,
                 results : {<<>>}, returned : {NotReturned},
                 local0 : {<<>>}, remote0 : {<<>>}, failedAt : {"none"}]

\* translateErrors(storage).load() is called.
LoadCall ==
  /\ store.pc \in {"idle", "done"}
  /\ store' = [store EXCEPT !.pc = "receive", !.results = <<>>,
                            !.returned = NotReturned,
                            !.local0 = store.local, !.remote0 = store.remote,
                            !.failedAt = "none"]
  /\ UNCHANGED <<textInput, hist>>

\* The awaited store call resolves.
LoadAwaited ==
  /\ store.pc \in Awaiting
  /\ store' = loadAwaited(store)
  /\ UNCHANGED <<textInput, hist>>

\* The awaited store call rejects.
LoadThrown ==
  /\ store.pc \in Awaiting
  /\ store' = [loadThrown(store) EXCEPT !.failedAt = store.pc]
  /\ UNCHANGED <<textInput, hist>>

NextStorage == LoadCall \/ LoadAwaited \/ LoadThrown

SpecStorage == InitStorage /\ [][NextStorage]_vars

(* ---------------- properties ---------------- *)

\* A step() call happened in this transition, with this key after
\* whitespace normalization.
Called == clock' # clock
Key == normalizeWhitespace(last'.codePoint)
Untouched == /\ steps' = steps /\ garbage' = garbage /\ typo' = typo
             /\ received' = received

\* C1: the committed history is never longer than the target, and a
\* step() call on a completed machine throws and changes nothing (and
\* only such a call throws).
C1_LengthBound == Len(steps) <= Len(codePoints)
C1_NoInputAfterCompletion ==
  [][Called => IF Len(steps) = Len(codePoints)
               THEN last'.fb = "Error" /\ Untouched
               ELSE last'.fb \in {"Succeeded", "Recovered", "Failed"}]_vars
C1_Completed == [](C1_LengthBound) /\ C1_NoInputAfterCompletion

\* A completed machine, filled by a multi-step commit, has refused a key.
C1_Witness ==
  /\ last.op = "step" /\ last.fb = "Error"
  /\ Len(steps) = Len(codePoints)
  /\ \E i \in 1..Len(steps) : steps[i].typo

\* C2 as stated: feeding the target's code points in order commits one
\* non-typo step per keystroke, for every target.
C2_AllCorrectEveryText ==
  fed >= 0 =>
    /\ Len(steps) = fed
    /\ \A i \in 1..Len(steps) : ~steps[i].typo
    /\ (completed(Machine) <=> fed = Len(codePoints))

\* The code points fed so far are typed as themselves and the text does
\* not begin with whitespace.
TypedAsItself(n) ==
  /\ n >= 0
  /\ ~isWhitespace(codePoints[1])
  /\ \A i \in 1..n : normalize(codePoints[i]) = normalizeWhitespace(codePoints[i])

\* C2 (amended): for a target that does not begin with whitespace, while
\* every code point fed is its own typed form, feeding the target's code
\* points in order commits exactly one non-typo step per keystroke with
\* feedback Succeeded, and completed holds exactly after the last one.
C2_AllCorrect ==
  TypedAsItself(fed) =>
    /\ Len(steps) = fed
    /\ \A i \in 1..Len(steps) :
         /\ ~steps[i].typo
         /\ steps[i].codePoint = normalize(codePoints[i])
    /\ (fed > 0 => last.fb = "Succeeded")
    /\ garbage = <<>> /\ ~typo
    /\ (completed(Machine) <=> fed = Len(codePoints))

\* A whole text has been typed correctly.
C2_Witness ==
  /\ TypedAsItself(fed) /\ fed = Len(codePoints)
  /\ completed(Machine) /\ last.fb = "Succeeded"

\* C3: backspace in a non-completed state: with nothing buffered it returns
\* Failed and changes nothing, otherwise it removes exactly the last
\* garbage entry, returns Succeeded and leaves steps, typo flag and the
\* listener's log unchanged.
C3_Backspace ==
  [][(Called /\ Key = BS /\ ~completed(Machine)) =>
       IF garbage = <<>>
       THEN last'.fb = "Failed" /\ Untouched
       ELSE /\ last'.fb = "Succeeded"
            /\ garbage' = SubSeq(garbage, 1, Len(garbage) - 1)
            /\ steps' = steps /\ received' = received /\ typo' = typo]_vars

\* Backspace has failed on a machine with committed steps and nothing
\* buffered.
C3_Witness ==
  /\ last.op = "step" /\ last.codePoint = BS /\ last.fb = "Failed"
  /\ steps # <<>> /\ garbage = <<>> /\ ~completed(Machine)

\* C4: in the fresh state (nothing committed, nothing buffered, no typo
\* outstanding) of a machine over a non-empty text, a space or a
\* whitespace variant returns Succeeded and changes nothing.
C4_LeadingSpaces ==
  [][(Called /\ Key = SP /\ steps = <<>> /\ garbage = <<>> /\ ~typo) =>
       (last'.fb = "Succeeded" /\ Untouched)]_vars

\* A second leading whitespace variant has been absorbed by a text that
\* itself begins with a space.
C4_Witness ==
  /\ last.op = "step" /\ last.codePoint = NBSP /\ last.fb = "Succeeded"
  /\ clock >= 2 /\ steps = <<>> /\ garbage = <<>> /\ ~typo
  /\ isWhitespace(codePoints[1])

\* The steps with code point k among the first n steps of a sequence.
StepsOf(stepSeq, k) == {i \in 1..Len(stepSeq) : stepSeq[i].codePoint = k}

\* The latency of step i: the time since the step before it, or since
\* startedAt for the first step (nothing without startedAt).
Latency(stepSeq, i, startedAt) ==
  IF i > 1 THEN stepSeq[i].timeStamp - stepSeq[i - 1].timeStamp
  ELSE IF startedAt # <<>> THEN stepSeq[i].timeStamp - startedAt[1]
  ELSE 0

RECURSIVE SumOver(_, _, _)
SumOver(stepSeq, indices, startedAt) ==
  IF indices = {} THEN 0
  ELSE LET i == CHOOSE x \in indices : TRUE
       IN Latency(stepSeq, i, startedAt)
            + SumOver(stepSeq, indices \ {i}, startedAt)

\* C11: for every code point k of the steps, the sample of k has hitCount
\* = number of steps with k, missCount = number of those with typo, and
\* timeToType = the (rounded) mean latency over the non-typo steps of k.
C11_HistogramFrom ==
  hist.pc = "done" =>
    \A k \in {hist.steps[i].codePoint : i \in 1..Len(hist.steps)} :
      LET sample == get(hist.samples, k)
          all == StepsOf(hist.steps, k)
          timed == {i \in all : ~hist.steps[i].typo}
      IN /\ sample.hitCount = Cardinality(all)
         /\ sample.missCount =
              Cardinality({i \in all : hist.steps[i].typo})
         /\ (timed # {} =>
               sample.timeToType =
                 mathRound(SumOver(hist.steps, timed, hist.startedAt),
                           Cardinality(timed)))

\* The characters the projection is to show, part by part.
CharsBeforeCursor ==
  [i \in 1..Len(steps) |->
     [codePoint |-> codePoints[i],
      attrs |-> IF steps[i].typo THEN "miss" ELSE "hit"]]
CharsAtCursor ==
  IF Len(steps) = Len(codePoints) THEN <<>>
  ELSE (IF stopOnError THEN <<>>
        ELSE [k \in 1..Len(garbage) |->
                [codePoint |-> garbage[k].codePoint, attrs |-> "garbage"]])
       \o <<[codePoint |-> codePoints[Len(steps) + 1], attrs |-> "cursor"]>>
CharsAfterCursor ==
  [i \in 1..(Len(codePoints) - Len(steps) - 1) |->
     [codePoint |-> codePoints[Len(steps) + 1 + i], attrs |-> "normal"]]

\* C12: getChars() covers the whole target: miss or hit for each position
\* before the cursor by that step's typo flag, then (unless completed) the
\* buffered garbage in buffer order (none under stopOnError) right before
\* the one cursor character, then normal for the rest; so its length is
\* the target's plus the buffer's when stopOnError is false and the text
\* is not completed, and the target's otherwise.
C12_GetChars ==
  /\ getChars(Machine) =
       CharsBeforeCursor \o CharsAtCursor \o CharsAfterCursor
  /\ Len(getChars(Machine)) =
       Len(codePoints) +
         (IF ~stopOnError /\ ~completed(Machine) THEN Len(garbage) ELSE 0)
  /\ Cardinality({i \in 1..Len(getChars(Machine)) :
                    getChars(Machine)[i].attrs = "cursor"}) =
       (IF completed(Machine) THEN 0 ELSE 1)

\* Garbage is buffered but hidden by stopOnError, between a missed
\* character and characters still to come.
C12_Witness ==
  /\ stopOnError /\ Len(garbage) >= 2
  /\ \E i \in 1..Len(steps) : steps[i].typo
  /\ Len(steps) + 1 < Len(codePoints)

\* The steps committed by the call of this transition.
Committed == SubSeq(steps', Len(steps) + 1, Len(steps'))

\* C13: the feedback agrees with what the call committed: Failed commits
\* nothing; Recovered commits at least one step and one of them is a
\* typo; Succeeded commits nothing or exactly one non-typo step. Steps
\* are only ever appended.
C13_FeedbackAgrees ==
  [][Called =>
       /\ Len(steps') >= Len(steps)
       /\ SubSeq(steps', 1, Len(steps)) = steps
       /\ (last'.fb = "Failed" => steps' = steps)
       /\ (last'.fb = "Recovered" =>
             /\ Len(Committed) >= 1
             /\ \E i \in 1..Len(Committed) : Committed[i].typo)
       /\ (last'.fb = "Succeeded" =>
             \/ steps' = steps
             \/ Len(Committed) = 1 /\ ~Committed[1].typo)]_vars

\* A recovery has committed a typo step followed by non-typo steps.
C13_Witness ==
  /\ last.op = "step" /\ last.fb = "Recovered" /\ forgiveErrors
  /\ Len(steps) >= 4
  /\ steps[Len(steps) - 3].typo /\ ~steps[Len(steps)].typo
  /\ steps[Len(steps)].timeStamp = last.timeStamp
  /\ steps[Len(steps) - 1].timeStamp < last.timeStamp

\* load() has returned normally.
Loaded == store.pc = "done" /\ store.returned.status = "ok"

HeldBy(stored) == {stored[i] : i \in 1..Len(stored)}

\* The local store changes only by the clear() that follows a successful
\* send of its results, and a failing send surfaces as a DatabaseError
\* with the local store intact.
LocalClearedAfterSend ==
  [][/\ (store'.local # store.local =>
           /\ store.pc = "clear" /\ store'.local = <<>>
           /\ HeldBy(store.local) \subseteq HeldBy(store.remote))
     /\ (store'.failedAt = "send" /\ store.pc = "send" =>
           /\ store'.returned.status = "DatabaseError"
           /\ store'.local = store.local0)]_vars

\* C14 as stated: for every combination of empty and non-empty stores,
\* after load() has completed successfully every result the local store
\* held is in the remote store and the local store is empty; the local
\* store is cleared only after the send succeeded.
C14_LoadMerges ==
  /\ [](Loaded => /\ HeldBy(store.local0) \subseteq HeldBy(store.remote)
                   /\ store.local = <<>>)
  /\ LocalClearedAfterSend

\* C14 (amended): when remote.receive() returns no results, after load()
\* has completed successfully every result the local store held is in the
\* remote store, the local store is empty and those results are returned;
\* when it returns results, load() returns them and leaves both stores as
\* they were; the local store is cleared only after the send succeeded.
C14_LoadMergesAmended ==
  /\ [](Loaded =>
          IF store.remote0 = <<>>
          THEN /\ HeldBy(store.local0) \subseteq HeldBy(store.remote)
               /\ store.local = <<>>
               /\ store.returned.results = store.local0
          ELSE /\ store.returned.results = store.remote0
               /\ store.local = store.local0
               /\ store.remote = store.remote0)
  /\ LocalClearedAfterSend

\* The local results have been sent to an empty remote store and cleared.
C14_Witness ==
  /\ Loaded /\ store.remote0 = <<>> /\ Len(store.local0) = 2
  /\ store.remote = store.local0 /\ store.local = <<>>

\* The call took the incorrect-input path of step().
Mismatched ==
  /\ Called /\ ~completed(Machine) /\ Key # BS
  /\ ~isLeadingWhitespace(Machine, Key)
  /\ ~(isSpaceKey(Machine, Key) /\ (atBeginningOfWord(Machine) \/ spaceSkipsWords))
  /\ ~(normalize(expected(Machine)) = Key /\ (forgiveErrors \/ garbage = <<>>))

\* C5 as stated: with forgiveErrors = false, while a mismatch is
\* outstanding and not cleared by backspace, every key that is neither
\* backspace nor the expected character returns Failed, and the expected
\* character is accepted.
C5_FailedUntilCorrected ==
  [][(/\ Called /\ ~forgiveErrors /\ ~completed(Machine) /\ typo
      /\ (stopOnError \/ garbage # <<>>) /\ Key # BS) =>
       IF Key = normalize(expected(Machine))
       THEN last'.fb # "Failed" /\ Len(steps') = Len(steps) + 1
       ELSE last'.fb = "Failed"]_vars

\* C5 (amended): with forgiveErrors = false and a mismatch outstanding,
\* a key that is neither backspace, nor the expected character, nor a
\* space typed where the target has no whitespace returns Failed and
\* commits nothing; such a space returns Succeeded at the beginning of a
\* word with nothing buffered, Recovered under spaceSkipsWords and Failed
\* otherwise; the expected character is accepted (one step, marked typo,
\* Recovered) exactly when nothing is buffered and returns Failed while
\* garbage is buffered.
C5_FailedUntilCorrectedAmended ==
  [][(Called /\ ~forgiveErrors /\ ~completed(Machine) /\ typo /\ Key # BS) =>
       IF Key = normalize(expected(Machine))
       THEN IF garbage = <<>>
            THEN /\ last'.fb = "Recovered"
                 /\ steps' = Append(steps, Step(Key, last'.timeStamp, TRUE))
                 /\ ~typo'
            ELSE last'.fb = "Failed" /\ steps' = steps
       ELSE IF Key = SP /\ ~isWhitespace(expected(Machine))
       THEN last'.fb =
              IF garbage = <<>>
                 /\ (steps = <<>> \/ isWhitespace(codePoints[Len(steps)]))
              THEN "Succeeded"
              ELSE IF spaceSkipsWords THEN "Recovered" ELSE "Failed"
       ELSE last'.fb = "Failed" /\ steps' = steps /\ typo']_vars

\* The expected character has been rejected, and buffered itself, because
\* mistyped characters were still buffered.
C5_Witness ==
  /\ ~forgiveErrors /\ last.op = "step" /\ last.fb = "Failed"
  /\ ~completed(Machine) /\ Len(garbage) >= 3
  /\ last.codePoint = normalize(expected(Machine))

\* The buffer as the incorrect-input path leaves it before recovery is
\* tried (forgiveErrors = true).
Buffered ==
  IF Len(garbage) < garbageBufferLength
  THEN Append(garbage, Step(Key, last'.timeStamp, FALSE))
  ELSE garbage

Room == Len(codePoints) - Len(steps) >= recoverBufferLength + 1

ReplacedApplies(g) ==
  /\ Len(g) >= recoverBufferLength + 1 /\ Room
  /\ \A i \in 0..2 : g[i + 2].codePoint = codePoints[Len(steps) + i + 2]

ReplacedCommit(g) ==
  steps \o <<Step(codePoints[Len(steps) + 1], g[1].timeStamp, TRUE)>>
        \o [j \in 1..(Len(g) - 1) |->
              Step(g[j + 1].codePoint, g[j + 1].timeStamp, FALSE)]

SkippedApplies(g) ==
  /\ Len(g) >= recoverBufferLength /\ Room
  /\ \A i \in 0..2 : g[i + 1].codePoint = codePoints[Len(steps) + i + 2]

SkippedCommit(g) ==
  steps \o <<Step(codePoints[Len(steps) + 1], g[1].timeStamp, TRUE)>>
        \o [j \in 1..Len(g) |-> Step(g[j].codePoint, g[j].timeStamp, FALSE)]

\* C6: replaced-character recovery: when, after a mismatch under
\* forgiveErrors, the buffer has at least 4 entries, the target has at
\* least 4 characters from the cursor and entries 1..3 equal the target
\* characters after the cursor, step() returns Recovered, having committed
\* the expected character as a typo with the first entry's time stamp and
\* then the entries from index 1 on as non-typo steps with their own time
\* stamps, and the buffer and the flag are cleared; otherwise the
\* heuristic commits nothing (only the skipped-character one may commit).
C6_ReplacedCharacter ==
  [][Mismatched =>
       IF forgiveErrors /\ ReplacedApplies(Buffered)
       THEN /\ last'.fb = "Recovered"
            /\ steps' = ReplacedCommit(Buffered)
            /\ garbage' = <<>> /\ ~typo'
       ELSE \/ steps' = steps /\ last'.fb = "Failed"
            \/ /\ forgiveErrors /\ SkippedApplies(Buffered)
               /\ steps' = SkippedCommit(Buffered)]_vars

\* Target "abcd", keys x, b, c, d at times 1..4 from cursor 0.
C6_Witness ==
  /\ codePoints = TextAbcd /\ last.fb = "Recovered" /\ last.timeStamp = 4
  /\ steps = <<Step(Chr.a, 1, TRUE), Step(Chr.b, 2, FALSE),
               Step(Chr.c, 3, FALSE), Step(Chr.d, 4, FALSE)>>
  /\ garbage = <<>> /\ ~typo

\* C7: skipped-character recovery: when, after a mismatch under
\* forgiveErrors, replaced-character recovery does not apply, the buffer
\* has at least 3 entries, the target has at least 4 characters from the
\* cursor and entries 0..2 equal the target characters after the cursor,
\* step() returns Recovered, having committed the expected character as a
\* typo with the first entry's time stamp and then every entry as a
\* non-typo step with its own time stamp; buffer and flag are cleared.
C7_SkippedCharacter ==
  [][(/\ Mismatched /\ forgiveErrors
      /\ ~ReplacedApplies(Buffered) /\ SkippedApplies(Buffered)) =>
       /\ last'.fb = "Recovered"
       /\ steps' = SkippedCommit(Buffered)
       /\ garbage' = <<>> /\ ~typo']_vars

\* Target "abcd", keys b, c, d at times 1..3 from cursor 0.
C7_Witness ==
  /\ codePoints = TextAbcd /\ last.fb = "Recovered" /\ last.timeStamp = 3
  /\ steps = <<Step(Chr.a, 1, TRUE), Step(Chr.b, 1, FALSE),
               Step(Chr.c, 2, FALSE), Step(Chr.d, 3, FALSE)>>
  /\ garbage = <<>> /\ ~typo

\* "foo " skipped at one time stamp.
FooSkipped(timeStamp) ==
  <<Step(Chr.f, timeStamp, TRUE), Step(Chr.o, timeStamp, TRUE),
    Step(Chr.o, timeStamp, TRUE), Step(SP, timeStamp, FALSE)>>

\* C8 as stated: target "foo bar", spaceSkipsWords, cursor at 0: a space
\* commits f, o, o as typos and the space as a non-typo step.
C8_WordSkipAtStart ==
  [][(/\ Called /\ codePoints = TextFooBar /\ spaceSkipsWords
      /\ steps = <<>> /\ Key = SP) =>
       steps' = FooSkipped(last'.timeStamp)]_vars

\* C8 (amended): target "foo bar", spaceSkipsWords, cursor at 0: a space
\* typed while the garbage buffer is non-empty returns Recovered and
\* commits f, o, o as typos and the space as a non-typo step, all with the
\* space's time stamp, so that the cursor is at 4 and buffer and flag are
\* cleared; with an empty buffer the space returns Succeeded and changes
\* nothing.
C8_WordSkipAtStartAmended ==
  [][(/\ Called /\ codePoints = TextFooBar /\ spaceSkipsWords
      /\ steps = <<>> /\ Key = SP) =>
       IF garbage # <<>>
       THEN /\ last'.fb = "Recovered"
            /\ steps' = FooSkipped(last'.timeStamp)
            /\ Len(steps') = 4 /\ garbage' = <<>> /\ ~typo'
       ELSE last'.fb = "Succeeded" /\ Untouched]_vars

\* The first word of "foo bar" has been skipped.
C8_Witness ==
  /\ codePoints = TextFooBar /\ spaceSkipsWords
  /\ last.op = "step" /\ normalizeWhitespace(last.codePoint) = SP
  /\ last.fb = "Recovered"
  /\ steps = FooSkipped(last.timeStamp)

\* C9: the steps the listener received since construction or the last
\* reset() are the committed steps, in commit order, each once.
C9_ListenerSeesEveryStep == received = getSteps(Machine)

\* A recovery has delivered its synthetic steps.
C9_Witness ==
  /\ last.op = "step" /\ last.fb = "Recovered" /\ forgiveErrors
  /\ Len(received) >= 4 /\ received[1].typo /\ ~received[2].typo
  /\ received[1].timeStamp <= received[2].timeStamp

\* C10: after reset() and a replay the machine agrees with a freshly
\* constructed one fed the same inputs, in feedback, committed steps,
\* buffer, flag and getChars(); reset() itself leaves all three empty.
C10_ReplayDeterminism ==
  /\ getSteps(Machine) = getSteps(fresh)
  /\ garbage = fresh.garbage /\ typo = fresh.typo
  /\ received = fresh.received
  /\ getChars(Machine) = getChars(fresh)
  /\ (last.op = "step" => last.fb = freshFb)
  /\ (last.op = "reset" => steps = <<>> /\ garbage = <<>> /\ ~typo)

\* A completed machine has been reset and has accepted a key again.
C10_Witness ==
  /\ resetFrom = "completed" /\ last.op = "step" /\ steps # <<>>
\* The call took the correct-input path of step().
Matched ==
  /\ Called /\ ~completed(Machine) /\ Key # BS
  /\ ~isLeadingWhitespace(Machine, Key)
  /\ ~(isSpaceKey(Machine, Key) /\ (atBeginningOfWord(Machine) \/ spaceSkipsWords))
  /\ normalize(expected(Machine)) = Key
  /\ (forgiveErrors \/ garbage = <<>>)

\* C15: the outstanding-typo flag decides how a matching key is recorded:
\* a mismatch sets it (unless the same call commits by recovery), only a
\* commit or reset() clears it, backspace never changes it, and an
\* accepted matching key is committed with typo = the flag, returning
\* Recovered if it was set and Succeeded if not.
C15_TypoFlagDecides ==
  [][/\ (typo /\ ~typo' =>
           Len(steps') > Len(steps) \/ (~Called /\ last'.op = "reset"))
     /\ (Called /\ Key = BS => typo' = typo /\ steps' = steps)
     /\ (Mismatched => typo' \/ Len(steps') > Len(steps))
     /\ (Matched =>
           /\ steps' = Append(steps, Step(Key, last'.timeStamp, typo))
           /\ last'.fb = (IF typo THEN "Recovered" ELSE "Succeeded")
           /\ ~typo' /\ garbage' = <<>>)]_vars

\* Without forgiveErrors a mistyped key was buffered and removed by
\* backspace, and the matching key was still committed as a typo.
C15_Witness ==
  /\ ~forgiveErrors /\ ~stopOnError
  /\ last.op = "step" /\ last.fb = "Recovered"
  /\ Len(steps) = 1 /\ steps[1].typo /\ steps[1].timeStamp >= 3
  /\ steps[1].codePoint = codePoints[1]
  /\ garbage = <<>> /\ ~typo
\* The buffer never exceeds its capacity, and nothing is buffered under
\* stopOnError without forgiveErrors.
GarbageBounded ==
  /\ Len(garbage) <= garbageBufferLength
  /\ (stopOnError /\ ~forgiveErrors => garbage = <<>>)

\* A mismatching key arrives at a full buffer.
Overflowing == Mismatched /\ Len(garbage) = garbageBufferLength

\* C16 as stated: the buffer holds at most 10 entries; a mismatch at a
\* full buffer returns Failed and the buffer then holds the most recent 10
\* mistyped characters; nothing is buffered under stopOnError without
\* forgiveErrors.
C16_GarbageBounded ==
  /\ [](GarbageBounded)
  /\ [][Overflowing =>
          /\ last'.fb = "Failed"
          /\ garbage' = Append(Tail(garbage),
                                Step(Key, last'.timeStamp, FALSE))]_vars

\* C16 (amended): the buffer holds at most 10 entries; a mismatch at a
\* full buffer returns Failed, raises no error and is dropped, so that the
\* buffer keeps the first 10 mistyped characters; nothing is buffered under
\* stopOnError without forgiveErrors.
C16_GarbageBoundedAmended ==
  /\ [](GarbageBounded)
  /\ [][Overflowing =>
          /\ last'.fb = "Failed"
          /\ garbage' = garbage /\ steps' = steps /\ typo']_vars

\* An eleventh mistyped key has been dropped.
C16_Witness ==
  /\ Len(garbage) = garbageBufferLength
  /\ last.op = "step" /\ last.codePoint = Chr.x /\ last.fb = "Failed"
  /\ last.timeStamp > garbage[garbageBufferLength].timeStamp
\* The position (from 1) after the word at the cursor: the next
\* whitespace of the target after the cursor's character, or one past the
\* end of the text.
WordEnd ==
  CHOOSE e \in (Len(steps) + 2)..(Len(codePoints) + 1) :
    /\ e = Len(codePoints) + 1 \/ isWhitespace(codePoints[e])
    /\ \A k \in (Len(steps) + 2)..(e - 1) : ~isWhitespace(codePoints[k])

\* What a word-skip commits at one time stamp.
WordSkipped(timeStamp) ==
  [i \in 1..(WordEnd - Len(steps) - 1) |->
     Step(codePoints[Len(steps) + i], timeStamp, TRUE)]
  \o (IF WordEnd <= Len(codePoints)
      THEN <<Step(codePoints[WordEnd], timeStamp, FALSE)>> ELSE <<>>)

\* The user is at a word boundary with nothing buffered.
CleanBoundary ==
  garbage = <<>> /\ (steps = <<>> \/ isWhitespace(codePoints[Len(steps)]))

\* C17: a space typed where the target has no whitespace: at a clean word
\* boundary it returns Succeeded and changes nothing, whatever
\* spaceSkipsWords says; otherwise, with spaceSkipsWords, it returns
\* Recovered and commits, at the space's time stamp, the character at the
\* cursor and the rest of the word as typos and then the next whitespace
\* (if any) as one non-typo step, leaving buffer and flag clear and the
\* cursor at the text's end or right after a whitespace.
C17_WordSkip ==
  [][(/\ Called /\ ~completed(Machine) /\ Key = SP
      /\ ~isWhitespace(codePoints[Len(steps) + 1])) =>
       IF CleanBoundary
       THEN last'.fb = "Succeeded" /\ Untouched
       ELSE spaceSkipsWords =>
              /\ last'.fb = "Recovered"
              /\ steps' = steps \o WordSkipped(last'.timeStamp)
              /\ received' = received \o WordSkipped(last'.timeStamp)
              /\ garbage' = <<>> /\ ~typo'
              /\ \/ Len(steps') = Len(codePoints)
                 \/ isWhitespace(codePoints[Len(steps')])]_vars

\* A word in the middle of a text has been skipped up to the text's end
\* from inside the word, with nothing buffered.
C17_Witness ==
  /\ spaceSkipsWords /\ last.op = "step" /\ last.fb = "Recovered"
  /\ normalizeWhitespace(last.codePoint) = SP
  /\ Len(steps) = Len(codePoints) /\ Len(steps) >= 3
  /\ ~steps[1].typo
  /\ steps[Len(steps)].typo /\ steps[Len(steps)].timeStamp = last.timeStamp
\* C18: the committed history spells a prefix of the target: every
\* committed code point is the target's at its position, or its plain
\* form, also for the steps a recovery commits from the buffer.
C18_HistoryIsPrefix ==
  /\ Len(steps) <= Len(codePoints)
  /\ \A i \in 1..Len(steps) :
       steps[i].codePoint \in {codePoints[i], normalize(codePoints[i])}

\* A replaced-character recovery has committed its buffered entries.
C18_Witness ==
  /\ forgiveErrors /\ last.op = "step" /\ last.fb = "Recovered"
  /\ Len(steps) >= 4 /\ steps[Len(steps) - 3].typo
  /\ steps[Len(steps) - 3].timeStamp < steps[Len(steps) - 2].timeStamp
  /\ steps[Len(steps)].codePoint = codePoints[Len(steps)]
  /\ steps[Len(steps)].timeStamp = last.timeStamp

C20_TimeStampsOrdered ==
  \A i, j \in 1..Len(steps) :
    i < j => steps[i].timeStamp <= steps[j].timeStamp

\* After an earlier commit, a skipped-character recovery has stamped its
\* typo step with the time of the first buffered entry.
C20_Witness ==
  /\ forgiveErrors /\ last.op = "step" /\ last.fb = "Recovered"
  /\ Len(steps) >= 4 /\ steps[Len(steps) - 3].typo
  /\ steps[Len(steps) - 3].timeStamp = steps[Len(steps) - 2].timeStamp
  /\ steps[Len(steps) - 2].timeStamp < steps[Len(steps) - 1].timeStamp
  /\ ~steps[Len(steps) - 2].typo
====
